---- MODULE Spec2Model ----
(***************************************************************************)
(* State-machine model of pyiron/atomistics/master/elastic.py:             *)
(*   - get_elastic_tensor_by_orientation (Voigt expansion, rank-4          *)
(*     rotation, Voigt contraction);                                       *)
(*   - calc_elastic_tensor (rotation reduction, augmentation, choice of    *)
(*     the fit);                                                           *)
(*   - _fit_coeffs_with_energies (design matrix and column selection);     *)
(*   - the ElasticTensor job (validate_ready_to_run, collect_output).      *)
(* Real numbers are modelled by integers: tensor entries are integers,     *)
(* rotation-matrix entries are fixed-point numbers in units of 1e-8.       *)
(***************************************************************************)
EXTENDS Integers, Sequences, FiniteSets, TLC

VARIABLES
    \* get_elastic_tensor_by_orientation
    orientation,               \* argument `orientation` (rebound by line 41)
    elastic_tensor,            \* argument `elastic_tensor`
    C,                         \* local 3x3x3x3 tensor `C`
    elastic_tensor_to_return,  \* local result
    tpc,                       \* position inside the function
    calls                      \* arguments of the calls made so far, as passed

tensorVars == <<orientation, elastic_tensor, C, elastic_tensor_to_return, tpc, calls>>

VARIABLES
    \* calc_elastic_tensor; an array is modelled by its number of entries
    strain,      \* len(strain): n, after line 108 the augmented count
    stress,      \* None or len(stress)
    energy,      \* None or len(energy)
    volume,      \* None or len(volume)
    rotations,   \* None or the list of rotation matrices
    fit,         \* the fit function called: "none", "stress" or "energy"
    cpc,         \* position inside the function
    calc_args    \* the arguments as passed

calcVars == <<strain, stress, energy, volume, rotations, fit, cpc, calc_args>>

VARIABLES
    \* _fit_coeffs_with_energies
    fit_strain,     \* `strain`: the augmented Voigt strain samples
    fit_volume,     \* `volume`
    fit_rotations,  \* len(rotations)
    fit_C,          \* the design matrix `C`, one row per sample
    fit_columns,    \* the columns of the 36 that line 75 keeps
    fpc             \* position inside the function

fitVars == <<fit_strain, fit_volume, fit_rotations, fit_C, fit_columns, fpc>>

VARIABLES
    \* the ElasticTensor job
    input,        \* self.input
    interactive,  \* self.ref_job.server.run_mode.interactive
    children,     \* per child job, the nodes of its output/generic
    next_child,   \* position of the loop of line 242 in child_ids
    output_dict,  \* local `output_dict` of collect_output
    output,       \* self._output
    jpc,          \* stage of the run
    supplied      \* self.input as the user left it before the run

jobVars == <<input, interactive, children, next_child, output_dict, output, jpc, supplied>>

vars == <<tensorVars, calcVars, fitVars, jobVars>>

\* the variables a part of the module leaves alone
notTensor == <<calcVars, fitVars, jobVars>>

notCalc == <<tensorVars, fitVars, jobVars>>

notFit == <<tensorVars, calcVars, jobVars>>

notJob == <<tensorVars, calcVars, fitVars>>

Abs(x) == IF x < 0 THEN -x ELSE x

Min(a, b) == IF a <= b THEN a ELSE b

Max(a, b) == IF a >= b THEN a ELSE b

Sum3(F(_)) == F(0) + F(1) + F(2)

\* the function f as an explicit table, every entry evaluated once
Table(f) == f @@ <<>>

(***************************************************************************)
(* Bounds                                                                  *)
(***************************************************************************)
\* elastic tensors are generated from the seeds 1..MaxSeed
MaxSeed == 2

\* strain, stress, energy and volume arrays have at most MaxSamples entries
MaxSamples == 2

\* a list of rotation matrices passed in has at most MaxRotations entries
MaxRotations == 2

\* the energy fit sees at most MaxAugmented augmented samples
MaxAugmented == 2

\* volumes are 2, 4, .., 2*MaxVolume
MaxVolume == 2

\* min_num_measurements is in 1..MaxMeasurements
MaxMeasurements == 2

\* min_num_points is in 1..MaxPoints
MaxPoints == 2

\* at most MaxSupplied strain matrices are supplied by the user
MaxSupplied == 2

(***************************************************************************)
(* get_elastic_tensor_by_orientation                                       *)
(***************************************************************************)
Dim == 0..2

Voigt == 0..5

Idx4 == Dim \X Dim \X Dim \X Dim

\* the index expression of lines 49 and 56 without its leading `i+`
VoigtIndexNoOffset(i, j) == (IF i # j THEN 1 ELSE 0) * (6 - 2*i - j)

\* the index expression written from the formula 6-2*min(i,j)-max(i,j)
VoigtIndexMinMax(i, j) == IF i = j THEN i ELSE 6 - 2 * Min(i, j) - Max(i, j)

\* i+(i!=j)*(6-2*i-j)
VoigtIndex(i, j) == i + (IF i # j THEN 1 ELSE 0) * (6 - 2*i - j)

ISqrt(x) == CHOOSE n \in 0..x : n * n = x

\* np.linalg.norm(orientation, axis=-1) for one row
Norm(row) == ISqrt(row[0] * row[0] + row[1] * row[1] + row[2] * row[2])

\* line 41 with the row normalisation left out
NormaliseSkipped(o) == o

\* np.einsum('ij,i->ij', orientation, 1/norm): every row divided by its length.
\* The orientations of the model have rows s*e_p, so the division is exact.
Normalise(o) == [i \in Dim |-> [j \in Dim |-> o[i][j] \div Norm(o[i])]]

\* np.linalg.det
Det(o) ==
      o[0][0] * (o[1][1] * o[2][2] - o[1][2] * o[2][1])
    - o[0][1] * (o[1][0] * o[2][2] - o[1][2] * o[2][0])
    + o[0][2] * (o[1][0] * o[2][1] - o[1][1] * o[2][0])

\* np.isclose defaults rtol=1e-05, atol=1e-08, in units of 1e-8
IsCloseUnit == 100000000

RTolUnits == 1000

ATolUnits == 1

\* np.isclose(a, b): |a - b| <= atol + rtol*|b|
IsClose(a, b) == Abs(a - b) * IsCloseUnit <= ATolUnits + RTolUnits * Abs(b)

\* lines 44-49
Expand(et) ==
    [t \in Idx4 |-> et[VoigtIndex(t[1], t[2])][VoigtIndex(t[3], t[4])]]

\* line 50 with the first subscript pair written 'iI' instead of 'Ii'
RotateTransposedFirst(o, C4) ==
    LET sl == Table([t \in Idx4 |-> Sum3(LAMBDA l : o[t[4]][l] * C4[<<t[1], t[2], t[3], l>>])])
        sk == Table([t \in Idx4 |-> Sum3(LAMBDA k : o[t[3]][k] * sl[<<t[1], t[2], k, t[4]>>])])
        sj == Table([t \in Idx4 |-> Sum3(LAMBDA j : o[t[2]][j] * sk[<<t[1], j, t[3], t[4]>>])])
    IN  [t \in Idx4 |-> Sum3(LAMBDA i : o[i][t[1]] * sj[<<i, t[2], t[3], t[4]>>])]

\* line 50: np.einsum('Ii,Jj,ijkl,Kk,Ll->IJKL', o, o, C, o, o), the sum over
\* i,j,k,l of o[I,i]*o[J,j]*C[i,j,k,l]*o[K,k]*o[L,l], summed one index at a
\* time (l, then k, then j, then i); over the integers the order of
\* summation does not change the sum
Rotate(o, C4) ==
    LET sl == Table([t \in Idx4 |-> Sum3(LAMBDA l : o[t[4]][l] * C4[<<t[1], t[2], t[3], l>>])])
        sk == Table([t \in Idx4 |-> Sum3(LAMBDA k : o[t[3]][k] * sl[<<t[1], t[2], k, t[4]>>])])
        sj == Table([t \in Idx4 |-> Sum3(LAMBDA j : o[t[2]][j] * sk[<<t[1], j, t[3], t[4]>>])])
    IN  Table([t \in Idx4 |-> Sum3(LAMBDA i : o[t[1]][i] * sj[<<i, t[2], t[3], t[4]>>])])

\* position of (i,j,k,l) in the loop nest of lines 52-55
LoopRank(t) == 27 * t[1] + 9 * t[2] + 3 * t[3] + t[4]

\* lines 52-56: the (i,j,k,l) whose assignment to entry (a,b) is the last
\* one in loop order, <<>> when no assignment reaches the entry
LastWriter ==
    [a \in Voigt |-> [b \in Voigt |->
        LET writers == {t \in Idx4 : VoigtIndex(t[1], t[2]) = a /\ VoigtIndex(t[3], t[4]) = b}
        IN  IF writers = {} THEN <<>>
            ELSE CHOOSE t \in writers : \A u \in writers : LoopRank(u) <= LoopRank(t)]]

\* lines 51-56: np.zeros_like, then one assignment per (i,j,k,l) in loop
\* order; the last assignment to an entry is the one that stays
Contract(C4) ==
    [a \in Voigt |-> [b \in Voigt |->
        IF LastWriter[a][b] = <<>> THEN 0 ELSE C4[LastWriter[a][b]]]]

\* the whole function as an operator: "ValueError" or the tensor returned
GetElasticTensorByOrientation(o, et) ==
    LET n == Normalise(o)
    IN  IF ~IsClose(Det(n), 1) THEN "ValueError"
        ELSE Contract(Rotate(n, Expand(et)))

(* ---- inputs ---- *)
Identity == [i \in Dim |-> [j \in Dim |-> IF i = j THEN 1 ELSE 0]]

\* rows s*e_p: one non-zero entry s in column p
ScaledUnitRows == {[j \in Dim |-> IF j = p THEN s ELSE 0] : p \in Dim, s \in {-2, -1, 1, 2}}

SignedUnitRows == {[j \in Dim |-> IF j = p THEN s ELSE 0] : p \in Dim, s \in {-1, 1}}

\* the 24 proper signed-permutation matrices
ProperRotations == {o \in [Dim -> SignedUnitRows] : Det(o) = 1}

\* orientations with pairwise orthogonal rows of length 1 or 2, among them
\* [[1,0,0],[0,1,0],[0,0,2]], together with improper and singular ones
Orientations == [Dim -> ScaledUnitRows]

\* 6x6 integer matrix with 36 different entries in 1..36 (37 is prime)
PlainTensor(s) == [a \in Voigt |-> [b \in Voigt |-> ((6 * a + b + 1) * s) % 37]]

\* symmetric 6x6 integer matrix with 21 different entries
SymTensor(s) == [a \in Voigt |-> [b \in Voigt |-> ((6 * Min(a, b) + Max(a, b) + 1) * s) % 37]]

Tensors == {PlainTensor(s) : s \in 1..MaxSeed} \cup {SymTensor(s) : s \in 1..MaxSeed}

IsSymmetric(et) == \A a, b \in Voigt : et[a][b] = et[b][a]

MatMul(A, B) == [i \in Dim |-> [j \in Dim |-> Sum3(LAMBDA k : A[i][k] * B[k][j])]]

(***************************************************************************)
(* Rotation reduction (calc_elastic_tensor lines 103-105,                  *)
(* _get_rotation_matrices lines 215-216)                                   *)
(***************************************************************************)
\* np.round(rotations, 6)
Decimals == 6

\* rotation-matrix entries are fixed-point numbers: One stands for 1.0 and
\* the unit is 1e-8, two digits below the rounding of np.round(.., 6)
One == 10 ^ (Decimals + 2)

RoundStep == One \div (10 ^ Decimals)

Range(f) == {f[x] : x \in DOMAIN f}

\* np.round(x, 6): to the nearest multiple of 1e-6, a tie to the even one
Round6(x) ==
    LET q == x \div RoundStep
        r == x % RoundStep
    IN  IF 2 * r < RoundStep THEN q * RoundStep
        ELSE IF 2 * r > RoundStep THEN (q + 1) * RoundStep
        ELSE IF q % 2 = 0 THEN q * RoundStep
        ELSE (q + 1) * RoundStep

RoundMatrix(A) == [i \in Dim |-> [j \in Dim |-> Round6(A[i][j])]]

\* np.round(rotations, 6)
RoundList(list) == [k \in DOMAIN list |-> RoundMatrix(list[k])]

\* the order in which np.unique(.., axis=0) sorts the flattened matrices
LexLess(A, B) ==
    \E p \in 0..8 :
        /\ A[p \div 3][p % 3] < B[p \div 3][p % 3]
        /\ \A q \in 0..(p - 1) : A[q \div 3][q % 3] = B[q \div 3][q % 3]

\* `indices` of line 104: for every entry, the position (from 0) of its
\* matrix among the sorted unique matrices
UniqueInverse(list) ==
    [k \in DOMAIN list |-> Cardinality({B \in Range(list) : LexLess(B, list[k])})]

\* np.unique(indices): the different values of `indices`, ascending
UniqueSorted(indices) ==
    LET vals == Range(indices)
    IN  [k \in 1..Cardinality(vals) |->
            CHOOSE v \in vals : Cardinality({w \in vals : w < v}) = k - 1]

\* rotations[idx]: the entries at the positions idx (counted from 0)
Take(list, idx) == [k \in DOMAIN idx |-> list[idx[k] + 1]]

\* lines 104-105 and 215-216
ReduceRotations(list) == Take(list, UniqueSorted(UniqueInverse(RoundList(list))))

\* np.eye(3)
Eye == [i \in Dim |-> [j \in Dim |-> IF i = j THEN One ELSE 0]]

\* the identity with two entries off by less than 1e-7
EyePerturbed == [Eye EXCEPT ![0][0] = One - 4, ![0][1] = 3]

\* the identity with one entry off by 7e-7: another matrix after rounding
EyeOff == [Eye EXCEPT ![0][1] = 70]

\* rotation by 90 degrees about z
R90 == [i \in Dim |-> [j \in Dim |->
            IF i = 0 /\ j = 1 THEN -One
            ELSE IF (i = 1 /\ j = 0) \/ (i = 2 /\ j = 2) THEN One ELSE 0]]

RotationMatrices == {Eye, EyePerturbed, EyeOff, R90}

SeqsUpTo(S, n) == UNION {[1..m -> S] : m \in 0..n}

RotationLists == SeqsUpTo(RotationMatrices, MaxRotations)

(***************************************************************************)
(* calc_elastic_tensor                                                     *)
(***************************************************************************)
\* an optional argument: Python's None, or a list or array
NoneArg == [is_none |-> TRUE]

\* an array known by its number of entries
Array(n) == [is_none |-> FALSE, len |-> n]

\* a list of matrices
List(items) == [is_none |-> FALSE, items |-> items]

\* lines 110-115 without the length test of the stress branch
FitChoiceStressUnchecked(n_aug, st, en, vo, rots) ==
    IF ~st.is_none THEN "stress"
    ELSE IF ~en.is_none /\ ~vo.is_none /\ en.len * Len(rots) = n_aug /\ en.len = vo.len
        THEN "energy"
    ELSE "ValueError"

\* lines 110-115: which fit is called; n_aug is len(strain) after line 108
FitChoice(n_aug, st, en, vo, rots) ==
    IF ~st.is_none /\ st.len * Len(rots) = n_aug THEN "stress"
    ELSE IF ~en.is_none /\ ~vo.is_none /\ en.len * Len(rots) = n_aug /\ en.len = vo.len
        THEN "energy"
    ELSE "ValueError"

\* lines 102-107
RotationsUsed(rots) ==
    IF ~rots.is_none THEN ReduceRotations(<<Eye>> \o rots.items) ELSE <<Eye>>

\* line 108: the einsum has shape (len(rotations), n, 3, 3), reshaped to
\* (len(rotations)*n, 3, 3)
AugmentedCount(rots, n) == Len(rots) * n

\* the whole function: the exception raised or the fit called, and the
\* rotations used
CalcElasticTensor(n, st, en, vo, rots) ==
    IF n = 0 THEN [outcome |-> "ValueError: Not enough points", rotations |-> <<>>]
    ELSE LET used == RotationsUsed(rots)
             choice == FitChoice(AugmentedCount(used, n), st, en, vo, used)
         IN  [outcome |-> IF choice = "ValueError" THEN "ValueError: You have to provide"
                          ELSE choice,
              rotations |-> used]

OptionalArrays == {NoneArg} \cup {Array(n) : n \in 0..MaxSamples}

CalcInit ==
    /\ strain \in 0..MaxSamples
    /\ stress \in OptionalArrays
    /\ energy \in OptionalArrays
    /\ volume \in OptionalArrays
    /\ rotations \in {NoneArg} \cup {List(l) : l \in RotationLists}
    /\ fit = "none"
    /\ cpc = "line100"
    /\ calc_args = [strain |-> strain, stress |-> stress, energy |-> energy,
                    volume |-> volume, rotations |-> rotations]

\* lines 100-101
RaiseNotEnoughPoints ==
    /\ cpc = "line100"
    /\ strain = 0
    /\ cpc' = "ValueError: Not enough points"
    /\ UNCHANGED <<notCalc, strain, stress, energy, volume, rotations, fit, calc_args>>

\* lines 100, 102-107
ReduceStep ==
    /\ cpc = "line100"
    /\ strain # 0
    /\ rotations' = RotationsUsed(rotations)
    /\ cpc' = "line108"
    /\ UNCHANGED <<notCalc, strain, stress, energy, volume, fit, calc_args>>

\* lines 108-109
AugmentStrain ==
    /\ cpc = "line108"
    /\ strain' = AugmentedCount(rotations, strain)
    /\ cpc' = "line110"
    /\ UNCHANGED <<notCalc, stress, energy, volume, rotations, fit, calc_args>>

\* lines 110-111, 113 and 116-119
CallFit ==
    /\ cpc = "line110"
    /\ FitChoice(strain, stress, energy, volume, rotations) # "ValueError"
    /\ fit' = FitChoice(strain, stress, energy, volume, rotations)
    /\ cpc' = "returned"
    /\ UNCHANGED <<notCalc, strain, stress, energy, volume, rotations, calc_args>>

\* lines 114-115
RaiseProvideData ==
    /\ cpc = "line110"
    /\ FitChoice(strain, stress, energy, volume, rotations) = "ValueError"
    /\ cpc' = "ValueError: You have to provide"
    /\ UNCHANGED <<notCalc, strain, stress, energy, volume, rotations, fit, calc_args>>

CalcNext ==
    \/ RaiseNotEnoughPoints
    \/ ReduceStep
    \/ AugmentStrain
    \/ CallFit
    \/ RaiseProvideData

(***************************************************************************)
(* _fit_coeffs_with_energies                                               *)
(***************************************************************************)
Columns == 0..35

\* np.tile(x, reps)
Tile(x, reps) == [k \in 1..(Len(x) * reps) |-> x[((k - 1) % Len(x)) + 1]]

\* lines 73-74: per sample the row of the 36 entries 0.5*volume*strain_a*
\* strain_b, those below the diagonal (a > b) set to zero by np.triu.
\* Volumes are even numbers, so 0.5*volume is an integer.
DesignMatrix(e, v) ==
    [n \in DOMAIN e |-> [c \in Columns |->
        IF c \div 6 <= c % 6 THEN (v[n] \div 2) * e[n][c \div 6] * e[n][c % 6] ELSE 0]]

SumOver(f, S) ==
    LET RECURSIVE Acc(_)
        Acc(T) == IF T = {} THEN 0 ELSE LET x == CHOOSE y \in T : TRUE IN f[x] + Acc(T \ {x})
    IN  Acc(S)

\* line 75: np.sum(C, axis=0) != 0
KeptColumns(M) == {c \in Columns : SumOver([n \in DOMAIN M |-> M[n][c]], DOMAIN M) # 0}

\* np.triu(np.ones((6,6))).flatten() != 0
UpperTriangle == {c \in Columns : c \div 6 <= c % 6}

\* line 80: reg.coef_[1:] has one entry per kept column and is multiplied
\* into the 21 upper-triangle entries, which numpy broadcasting allows for
\* 21 entries or for 1
ScatterFits(kept) ==
    Cardinality(kept) = Cardinality(UpperTriangle) \/ Cardinality(kept) = 1

\* Voigt strain samples: at most two non-zero components among the first
\* three, or all six components equal to 1
StrainVectors ==
    {[a \in Voigt |-> IF a = p THEN x ELSE IF a = q THEN y ELSE 0] :
        p \in {0}, q \in {1, 2}, x \in {-1, 0, 1}, y \in {-1, 0, 1}}
    \cup {[a \in Voigt |-> 1]}

Volumes == {2 * k : k \in 1..MaxVolume}

FitInit ==
    \E n \in 1..MaxAugmented, R \in 1..MaxAugmented :
        /\ n * R <= MaxAugmented
        /\ fit_strain \in [1..(n * R) -> StrainVectors]
        /\ fit_volume \in [1..n -> Volumes]
        /\ fit_rotations = R
        /\ fit_C = <<>>
        /\ fit_columns = {}
        /\ fpc = "line71"

\* lines 71-72
TileStep ==
    /\ fpc = "line71"
    /\ fit_volume' = Tile(fit_volume, fit_rotations)
    /\ fpc' = "line73"
    /\ UNCHANGED <<notFit, fit_strain, fit_rotations, fit_C, fit_columns>>

\* lines 73-74
DesignStep ==
    /\ fpc = "line73"
    /\ fit_C' = DesignMatrix(fit_strain, fit_volume)
    /\ fpc' = "line75"
    /\ UNCHANGED <<notFit, fit_strain, fit_volume, fit_rotations, fit_columns>>

\* lines 75-76
SelectColumns ==
    /\ fpc = "line75"
    /\ fit_columns' = KeptColumns(fit_C)
    /\ fpc' = "line77"
    /\ UNCHANGED <<notFit, fit_strain, fit_volume, fit_rotations, fit_C>>

\* lines 77-83, the scatter of line 80 succeeding
ScatterCoefficients ==
    /\ fpc = "line77"
    /\ ScatterFits(fit_columns)
    /\ fpc' = "returned"
    /\ UNCHANGED <<notFit, fit_strain, fit_volume, fit_rotations, fit_C, fit_columns>>

\* lines 77-80, the scatter of line 80 failing
RaiseBroadcast ==
    /\ fpc = "line77"
    /\ ~ScatterFits(fit_columns)
    /\ fpc' = "ValueError: could not be broadcast"
    /\ UNCHANGED <<notFit, fit_strain, fit_volume, fit_rotations, fit_C, fit_columns>>

FitNext ==
    \/ TileStep
    \/ DesignStep
    \/ SelectColumns
    \/ ScatterCoefficients
    \/ RaiseBroadcast

(***************************************************************************)
(* The ElasticTensor job                                                   *)
(***************************************************************************)
CeilDiv(a, b) == (a + b - 1) \div b

\* lines 206-211
NumberOfMeasurements(inp) ==
    Max(inp.min_num_measurements, CeilDiv(inp.min_num_points, Max(Len(inp.rotations), 1)))

\* the rotations get_symmetry() reports for the reference structure: the
\* identity first, a rotation possibly several times (once per translation)
SymmetryLists == {<<Eye>> \o l : l \in SeqsUpTo({Eye, R90}, MaxRotations)}

\* line 222: the random strain matrices, each one of two values
RandomStrains == {"eps_p", "eps_q"}

\* the loop of line 244
OutputKeys == <<"energy_tot", "energy_pot", "pressures", "volume">>

\* key.split('_')[0]
Channel(key) == IF key \in {"energy_tot", "energy_pot"} THEN "energy" ELSE key

\* lines 245-248 for one key of one child
CollectKey(od, nodes, job_id, key) ==
    IF key \in nodes
    THEN [od EXCEPT ![Channel(key)] = Append(@, [id |-> job_id, key |-> key])]
    ELSE [od EXCEPT ![Channel(key)] = <<>>]

\* lines 244-249 for one child
CollectOne(od, nodes, job_id) ==
    LET RECURSIVE Keys(_, _)
        Keys(d, k) == IF k > Len(OutputKeys) THEN d
                      ELSE Keys(CollectKey(d, nodes, job_id, OutputKeys[k]), k + 1)
    IN  [Keys(od, 1) EXCEPT !["id"] = Append(@, job_id)]

EmptyOutput == [energy |-> <<>>, pressures |-> <<>>, volume |-> <<>>, id |-> <<>>]

JobInit ==
    /\ input \in [min_num_measurements : 1..MaxMeasurements,
                  min_num_points : 1..MaxPoints,
                  strain_matrices : SeqsUpTo({"eps_given"}, MaxSupplied),
                  use_symmetry : BOOLEAN,
                  rotations : RotationLists]
    /\ interactive \in BOOLEAN
    /\ children = <<>>
    /\ next_child = 1
    /\ output_dict = EmptyOutput
    /\ output = <<>>
    /\ jpc = "created"
    /\ supplied = input

\* lines 213-217 for the symmetry rotations sym
GetRotationMatrices(inp, sym) == [inp EXCEPT !.rotations = ReduceRotations(sym)]

\* lines 227-230 with _create_strain_matrices (lines 219-225)
ValidateReadyToRun ==
    /\ jpc \in {"created", "validated"}
    /\ jpc' = "validated"
    /\ IF Len(input.strain_matrices) = 0
       THEN \E sym \in SymmetryLists :
                LET inp == IF input.use_symmetry /\ Len(input.rotations) = 0
                           THEN GetRotationMatrices(input, sym) ELSE input
                IN  \E eps \in [1..NumberOfMeasurements(inp) -> RandomStrains] :
                        input' = [inp EXCEPT !.strain_matrices = eps]
       ELSE input' = input
    /\ UNCHANGED <<notJob, interactive, children, next_child, output_dict, output, supplied>>

\* the children run: one child job per strain matrix (lines 143-149), in
\* interactive mode one child that takes every strain matrix in turn
RunChildren ==
    /\ jpc = "validated"
    /\ children' \in [1..(IF interactive THEN 1 ELSE Len(input.strain_matrices))
                        -> SUBSET Range(OutputKeys)]
    /\ jpc' = "collect"
    /\ UNCHANGED <<notJob, input, interactive, next_child, output_dict, output, supplied>>

\* lines 234-239: the nodes of the first child are taken whole, with as
\* many snapshots as that child has written
CollectInteractive ==
    /\ jpc = "collect"
    /\ interactive
    /\ next_child = 1
    /\ \E snapshots \in 1..MaxSamples :
        output_dict' =
            [ch \in {"energy", "pressures", "volume"} |->
                LET key == IF ch = "energy" THEN "energy_tot" ELSE ch
                IN  IF key \in children[1]
                    THEN [k \in 1..snapshots |-> [id |-> 1, key |-> key]]
                    ELSE <<>>]
            @@ [id |-> <<>>]
    /\ next_child' = 2
    /\ UNCHANGED <<notJob, input, interactive, children, output, jpc, supplied>>

\* lines 242-249, one pass of the loop
CollectChild ==
    /\ jpc = "collect"
    /\ ~interactive
    /\ next_child <= Len(children)
    /\ output_dict' = CollectOne(output_dict, children[next_child], next_child)
    /\ next_child' = next_child + 1
    /\ UNCHANGED <<notJob, input, interactive, children, output, jpc, supplied>>

\* lines 250-262
FitCollected ==
    /\ jpc = "collect"
    /\ next_child > Len(children)
    /\ LET call == CalcElasticTensor(Len(input.strain_matrices),
                        Array(Len(output_dict.pressures)), Array(Len(output_dict.energy)),
                        Array(Len(output_dict.volume)), List(input.rotations))
       IN  /\ output' = [collected |-> output_dict, fit |-> call.outcome,
                         rotations |-> call.rotations]
           /\ jpc' = IF call.outcome \in {"stress", "energy"} THEN "fitted" ELSE "ValueError"
    /\ UNCHANGED <<notJob, input, interactive, children, next_child, output_dict, supplied>>

JobNext ==
    \/ ValidateReadyToRun
    \/ RunChildren
    \/ CollectInteractive
    \/ CollectChild
    \/ FitCollected

(* ---- steps ---- *)
TensorInit ==
    /\ orientation \in Orientations
    /\ elastic_tensor \in Tensors
    /\ C = <<>>
    /\ elastic_tensor_to_return = <<>>
    /\ tpc = "normalise"
    /\ calls = <<[orientation |-> orientation, elastic_tensor |-> elastic_tensor]>>

\* line 41
NormaliseRows ==
    /\ tpc = "normalise"
    /\ orientation' = Normalise(orientation)
    /\ tpc' = "check"
    /\ UNCHANGED <<notTensor, elastic_tensor, C, elastic_tensor_to_return, calls>>

\* lines 42-43
RaiseNotOrthogonal ==
    /\ tpc = "check"
    /\ ~IsClose(Det(orientation), 1)
    /\ tpc' = "ValueError"
    /\ UNCHANGED <<notTensor, orientation, elastic_tensor, C, elastic_tensor_to_return, calls>>

\* lines 42, 44-49
ExpandVoigt ==
    /\ tpc = "check"
    /\ IsClose(Det(orientation), 1)
    /\ C' = Expand(elastic_tensor)
    /\ tpc' = "rotate"
    /\ UNCHANGED <<notTensor, orientation, elastic_tensor, elastic_tensor_to_return, calls>>

\* line 50
RotateFull ==
    /\ tpc = "rotate"
    /\ C' = Rotate(orientation, C)
    /\ tpc' = "contract"
    /\ UNCHANGED <<notTensor, orientation, elastic_tensor, elastic_tensor_to_return, calls>>

\* lines 51-57
ContractVoigt ==
    /\ tpc = "contract"
    /\ elastic_tensor_to_return' = Contract(C)
    /\ tpc' = "returned"
    /\ UNCHANGED <<notTensor, orientation, elastic_tensor, C, calls>>

\* the caller passes the tensor returned for a proper rotation to a second
\* call, again with a proper rotation
CallAgain ==
    /\ tpc = "returned"
    /\ Len(calls) = 1
    /\ calls[1].orientation \in ProperRotations
    /\ \E o \in ProperRotations :
        /\ orientation' = o
        /\ calls' = Append(calls, [orientation |-> o, elastic_tensor |-> elastic_tensor_to_return])
    /\ elastic_tensor' = elastic_tensor_to_return
    /\ C' = <<>>
    /\ elastic_tensor_to_return' = <<>>
    /\ tpc' = "normalise"
    /\ UNCHANGED notTensor

TensorNext ==
    \/ NormaliseRows
    \/ RaiseNotOrthogonal
    \/ ExpandVoigt
    \/ RotateFull
    \/ ContractVoigt
    \/ CallAgain

(***************************************************************************)
(* Specifications: each part of the module runs on its own, the variables  *)
(* of the other parts stay at rest                                         *)
(***************************************************************************)
TensorIdle ==
    /\ orientation = <<>>
    /\ elastic_tensor = <<>>
    /\ C = <<>>
    /\ elastic_tensor_to_return = <<>>
    /\ tpc = "idle"
    /\ calls = <<>>

CalcIdle ==
    /\ strain = 0
    /\ stress = NoneArg
    /\ energy = NoneArg
    /\ volume = NoneArg
    /\ rotations = NoneArg
    /\ fit = "none"
    /\ cpc = "idle"
    /\ calc_args = <<>>

FitIdle ==
    /\ fit_strain = <<>>
    /\ fit_volume = <<>>
    /\ fit_rotations = 0
    /\ fit_C = <<>>
    /\ fit_columns = {}
    /\ fpc = "idle"

JobIdle ==
    /\ input = <<>>
    /\ interactive = FALSE
    /\ children = <<>>
    /\ next_child = 1
    /\ output_dict = EmptyOutput
    /\ output = <<>>
    /\ jpc = "idle"
    /\ supplied = <<>>

InitTensor == TensorInit /\ CalcIdle /\ FitIdle /\ JobIdle

SpecTensor == InitTensor /\ [][TensorNext]_vars

InitCalc == CalcInit /\ TensorIdle /\ FitIdle /\ JobIdle

SpecCalc == InitCalc /\ [][CalcNext]_vars

InitFit == FitInit /\ TensorIdle /\ CalcIdle /\ JobIdle

SpecFit == InitFit /\ [][FitNext]_vars

InitJob == JobInit /\ TensorIdle /\ CalcIdle /\ FitIdle

SpecJob == InitJob /\ [][JobNext]_vars

(***************************************************************************)
(* Properties of get_elastic_tensor_by_orientation                         *)
(***************************************************************************)
\* the arguments of the call in progress
Call == calls[Len(calls)]

\* [[1,0,0],[0,1,0],[0,0,2]]
Diag112 == [i \in Dim |-> [j \in Dim |-> IF i # j THEN 0 ELSE IF i = 2 THEN 2 ELSE 1]]

\* C3 as stated: the call with orientation [[1,0,0],[0,1,0],[0,0,2]] raises
\* the ValueError of line 43 and returns no tensor.
C3_Diag112Raises ==
    (Call.orientation = Diag112 /\ tpc \notin {"normalise", "check"})
        => (tpc = "ValueError" /\ elastic_tensor_to_return = <<>>)

\* C3 amended: the call with orientation [[1,0,0],[0,1,0],[0,0,2]] never
\* raises: the normalised rows form the identity, the determinant check
\* passes, and the tensor returned is the tensor passed in.
C3_Diag112Accepted ==
    Call.orientation = Diag112 =>
        /\ tpc # "ValueError"
        /\ tpc # "normalise" => orientation = Identity
        /\ tpc = "returned" => elastic_tensor_to_return = elastic_tensor

C3_Witness ==
    /\ Call.orientation = Diag112
    /\ tpc = "returned"
    /\ elastic_tensor_to_return = PlainTensor(1)

\* C5: Voigt round trip. Contracting the expanded tensor gives back every
\* one of the 36 entries of the 6x6 matrix, and a call whose normalised
\* orientation is the identity returns the matrix it was given.
C5_RoundTrip ==
    /\ tpc = "rotate" => Contract(C) = elastic_tensor
    /\ (tpc = "returned" /\ orientation = Identity) => elastic_tensor_to_return = elastic_tensor

C5_Witness ==
    /\ tpc = "returned"
    /\ Call.orientation = Identity
    /\ ~IsSymmetric(elastic_tensor)
    /\ elastic_tensor_to_return = elastic_tensor

\* the index map as the claim C6 writes it
ClaimedIndex(i, j) == IF i = j THEN i ELSE 6 - 2 * Min(i, j) - Max(i, j)

\* the index map of the amended claim C6
AmendedIndex(i, j) == IF i = j THEN i ELSE 6 - i - j

\* C6 as stated: the expansion reads entry (m(i,j), m(k,l)) with
\* m(i,j) = i if i == j else 6 - 2*min(i,j) - max(i,j), and m maps the
\* off-diagonal pairs onto 3, 4, 5.
C6_ClaimedIndexMap ==
    tpc = "rotate" =>
        /\ \A t \in Idx4 :
              C[t] = elastic_tensor[ClaimedIndex(t[1], t[2])][ClaimedIndex(t[3], t[4])]
        /\ {ClaimedIndex(p[1], p[2]) : p \in {q \in Dim \X Dim : q[1] # q[2]}} = {3, 4, 5}

\* C6 amended: the expansion reads entry (m(i,j), m(k,l)) with
\* m(i,j) = i if i == j else 6 - i - j; the expanded tensor is symmetric in
\* (i,j) and in (k,l), m maps the diagonal pairs to 0, 1, 2 and the
\* off-diagonal pairs onto 3, 4, 5.
C6_IndexMap ==
    tpc = "rotate" =>
        /\ \A t \in Idx4 :
              /\ C[t] = elastic_tensor[AmendedIndex(t[1], t[2])][AmendedIndex(t[3], t[4])]
              /\ C[t] = C[<<t[2], t[1], t[3], t[4]>>]
              /\ C[t] = C[<<t[1], t[2], t[4], t[3]>>]
        /\ \A i \in Dim : AmendedIndex(i, i) = i
        /\ {AmendedIndex(p[1], p[2]) : p \in {q \in Dim \X Dim : q[1] # q[2]}} = {3, 4, 5}

C6_Witness ==
    /\ tpc = "rotate"
    /\ elastic_tensor = PlainTensor(1)
    /\ C[<<1, 2, 2, 1>>] = PlainTensor(1)[3][3]

\* C7: rotating by R1 and then rotating the result by R2 gives the tensor
\* that one rotation by R2.R1 gives, for proper signed-permutation
\* matrices R1, R2 and a symmetric 6x6 tensor.
C7_Composition ==
    (tpc = "returned" /\ Len(calls) = 2 /\ IsSymmetric(calls[1].elastic_tensor)) =>
        elastic_tensor_to_return =
            GetElasticTensorByOrientation(
                MatMul(calls[2].orientation, calls[1].orientation), calls[1].elastic_tensor)

C7_Witness ==
    /\ tpc = "returned"
    /\ Len(calls) = 2
    /\ IsSymmetric(calls[1].elastic_tensor)
    /\ calls[1].orientation # Identity
    /\ calls[2].orientation # Identity
    /\ MatMul(calls[2].orientation, calls[1].orientation)
            # MatMul(calls[1].orientation, calls[2].orientation)
    /\ elastic_tensor_to_return # calls[1].elastic_tensor
    /\ elastic_tensor_to_return # calls[2].elastic_tensor

(***************************************************************************)
(* Properties of calc_elastic_tensor                                       *)
(***************************************************************************)
\* for every different value of `indices`, the position (from 0) of its
\* first occurrence, ascending
FirstIndexOf(indices) ==
    LET firsts == {k \in DOMAIN indices : \A m \in 1..(k - 1) : indices[m] # indices[k]}
    IN  [k \in 1..Cardinality(firsts) |->
            (CHOOSE v \in firsts : Cardinality({w \in firsts : w < v}) = k - 1) - 1]

\* the first occurrences of the different matrices (compared after
\* rounding) of a list, in the order of the list
FirstOccurrences(list) ==
    Take(list, FirstIndexOf(UniqueInverse(RoundList(list))))

ReductionDone == cpc \in {"line108", "line110", "returned", "ValueError: You have to provide"}

\* C1 as stated: the reduced list is the sequence of first occurrences of
\* the different matrices of the list (identity prepended), compared after
\* rounding to 6 decimals; so [I, I, R90] reduces to [I, R90].
C1_FirstOccurrences ==
    (ReductionDone /\ ~calc_args.rotations.is_none) =>
        rotations = FirstOccurrences(<<Eye>> \o calc_args.rotations.items)

\* the outcome the claim C2 gives for n = len(strain), the optional stress,
\* energy and volume and R rotations
ClaimedOutcome(n, st, en, vo, R) ==
    IF n = 0 THEN "InsufficientData"
    ELSE IF ~st.is_none /\ st.len * R = n * R THEN "stress"
    ELSE IF ~en.is_none /\ ~vo.is_none /\ en.len * R = n * R /\ en.len = vo.len THEN "energy"
    ELSE "InputMismatch"

CalcOutcome ==
    IF cpc = "ValueError: Not enough points" THEN "InsufficientData"
    ELSE IF cpc = "ValueError: You have to provide" THEN "InputMismatch"
    ELSE fit

CalcEnded ==
    cpc \in {"returned", "ValueError: Not enough points", "ValueError: You have to provide"}

\* C2: with n = len(strain) and R the number of rotations used, the call
\* ends with the first error if n = 0, else with the stress fit if stress is
\* given and len(stress)*R = n*R, else with the energy fit if energy and
\* volume are given, len(energy)*R = n*R and len(energy) = len(volume), else
\* with the second error; at least one rotation is used.
C2_Outcome ==
    CalcEnded =>
        LET a == calc_args
            R == IF a.strain = 0 THEN 1 ELSE Len(rotations)
        IN  /\ R >= 1
            /\ CalcOutcome = ClaimedOutcome(a.strain, a.stress, a.energy, a.volume, R)

\* strain=[s1,s2], stress=[t1], energy=None ends with the second error
C2_Witness ==
    /\ cpc = "ValueError: You have to provide"
    /\ calc_args.strain = 2
    /\ calc_args.stress = Array(1)
    /\ calc_args.energy = NoneArg
    /\ Len(rotations) = 2

(***************************************************************************)
(* Properties of _fit_coeffs_with_energies                                 *)
(***************************************************************************)
\* C10 as stated: the column of the pair (a,b), a <= b, is dropped if and
\* only if its entry is zero in every sample, so a column whose non-zero
\* entries cancel in the sum is kept and the number of fitted coefficients
\* is the number of upper-triangle pairs with a non-zero entry.
C10_DropsOnlyZeroColumns ==
    fpc \in {"line77", "returned", "ValueError: could not be broadcast"} =>
        fit_columns = {c \in UpperTriangle : \E n \in DOMAIN fit_C : fit_C[n][c] # 0}

(***************************************************************************)
(* Properties of the ElasticTensor job                                     *)
(***************************************************************************)
\* C4 as stated: the number of measurements times the number of rotations
\* that calc_elastic_tensor uses is at least min_num_points, and the number
\* of measurements is at least min_num_measurements.
C4_EnoughPoints ==
    jpc = "fitted" =>
        /\ NumberOfMeasurements(input) * Len(output.rotations) >= input.min_num_points
        /\ NumberOfMeasurements(input) >= input.min_num_measurements

LoopDone == jpc \in {"collect", "fitted", "ValueError"} /\ next_child > Len(children)

\* the node a channel is expected to be read from
ChannelKey(ch) == IF ch = "energy" THEN "energy_tot" ELSE ch

\* C8 as stated: after the batch loop over n children every channel is
\* empty or holds n entries, entry k from child k; it holds n entries when
\* every child provides the channel and is empty when some child lacks it;
\* the id array holds n entries.
C8_ChannelsComplete ==
    (LoopDone /\ ~interactive) =>
        LET n == Len(children)
        IN  /\ \A ch \in {"energy", "pressures", "volume"} :
                /\ \/ Len(output_dict[ch]) = 0
                   \/ /\ Len(output_dict[ch]) = n
                      /\ \A k \in 1..n : output_dict[ch][k].id = k
                /\ (\A k \in 1..n : ChannelKey(ch) \in children[k])
                        => Len(output_dict[ch]) = n
                /\ (\E k \in 1..n : ChannelKey(ch) \notin children[k])
                        => Len(output_dict[ch]) = 0
            /\ Len(output_dict.id) = n

\* C9 as stated: with use_symmetry and no rotations supplied, the rotations
\* have been derived from the symmetry of the structure once
\* validate_ready_to_run has run, whether or not strain matrices were
\* supplied; supplied rotations and supplied strain matrices are never
\* overwritten.
C9_RotationsDerived ==
    /\ (jpc \notin {"idle", "created"} /\ supplied.use_symmetry /\ Len(supplied.rotations) = 0)
            => input.rotations \in {ReduceRotations(sym) : sym \in SymmetryLists}
    /\ (jpc # "idle" /\ Len(supplied.rotations) > 0)
            => input.rotations = supplied.rotations
    /\ (jpc # "idle" /\ Len(supplied.strain_matrices) > 0)
            => input.strain_matrices = supplied.strain_matrices

====
